---- MODULE Spec2Model ----
(***************************************************************************)
(* Model of the per-trial analysis of the Asterisk Test repository:        *)
(* AsteriskTrialData (asterisk_trial.py), HandInfo (ast_hand_info.py) and  *)
(* the ideal-path generators (asterisk_hand_data.py).                      *)
(*                                                                         *)
(* Number representation.  Python floats are modelled by exact fixed-point *)
(* integers:                                                               *)
(*   - a cell of the pose table before its final rounding is an integer    *)
(*     count of 1e-7 ("fine" units), so that raw metres times 1000 and the *)
(*     division by span/depth followed by round(4) are exact;              *)
(*   - a cell of poses (after round(4)) is an integer count of 1e-4;       *)
(*   - a coordinate of an ideal path is an integer count of sample steps,  *)
(*     one step being (1/RadiusDen)/(n_samples-1);                         *)
(*   - a distance is kept as its square (in squared sample steps), which   *)
(*     orders and equates exactly as the distance does.                    *)
(***************************************************************************)
EXTENDS Integers, Sequences, FiniteSets, TLC

VARIABLES
    file_name,          \* the constructor's argument, a str
    do_metrics,         \* the constructor's argument do_metrics
    norm_data,          \* the constructor's argument norm_data
    csv,                \* aruco_data/<file_name>: None when pd.read_csv fails, else Some(table)
    pc,                 \* position inside AsteriskTrialData.__init__
    raised,             \* the exception that left __init__, "none" when there is none
    hand,               \* self.hand
    poses,              \* self.poses
    subject,            \* self.subject
    trial_translation,  \* self.trial_translation
    trial_rotation,     \* self.trial_rotation
    trial_num,          \* self.trial_num
    filtered,           \* self.filtered
    window_size,        \* self.window_size
    target_line,        \* self.target_line
    target_rotation,    \* self.target_rotation
    total_distance,     \* self.total_distance (squared, in squared sample steps)
    metrics,            \* self.metrics
    labels,             \* self.labels
    calls,              \* what each acalc.calc_* call made by update_all_metrics did
    log,                \* the methods __init__ has called so far, in order
    saved,              \* the last save_data call: None, or Some of its argument, the path
                        \* it wrote and the columns it wrote
    cwd,                \* the working directory of the process
    viewer,             \* position inside AstData.view_images, "idle" when it is not called
    table_reads,        \* the number of times '.hand_dimensions' has been read
    trials,             \* the number of trial constructions the process has started
    call,               \* a call of one of the other functions of the program: None, or
                        \* Some of the function's name and arguments
    returned            \* None until the call has run, then Some of what it returned

vars == <<file_name, do_metrics, norm_data, csv, pc, raised, hand, poses, subject,
          trial_translation, trial_rotation, trial_num, filtered, window_size,
          target_line, target_rotation, total_distance, metrics, labels, calls,
          log, saved, cwd, viewer, table_reads, trials, call, returned>>

-----------------------------------------------------------------------------
(* Python's None and a present value. *)
None == <<>>
Some(v) == <<v>>
Get(o) == o[1]

(* A Python str is the sequence of its pieces: a piece is a separator      *)
(* ("_" or ".") or a run of characters that holds no separator.            *)
Str(w) == <<w>>

(* str.split(sep): the list of the strings between the separators *)
RECURSIVE split(_, _)
split(str, sep) ==
    IF \A i \in DOMAIN str : str[i] # sep THEN <<str>>
    ELSE LET k == CHOOSE i \in DOMAIN str :
                      str[i] = sep /\ \A j \in 1..(i - 1) : str[j] # sep
         IN  <<SubSeq(str, 1, k - 1)>> \o split(SubSeq(str, k + 1, Len(str)), sep)

Abs(i) == IF i < 0 THEN -i ELSE i
Min2(a, b) == IF a <= b THEN a ELSE b
Range(s) == {s[i] : i \in DOMAIN s}

(* Python indexing seq[i] with 0 <= i: in range or IndexError. *)
InRange(s, i) == i >= 0 /\ i < Len(s)
At(s, i) == s[i + 1]
(* Python slicing seq[:k] with k >= 0. *)
Take(s, k) == SubSeq(s, 1, Min2(k, Len(s)))

(* n/d rounded to the nearest integer, ties to the even one (numpy round), d > 0. *)
RoundHalfEven(n, d) ==
    LET q == n \div d
        r == n % d
    IN  IF 2 * r < d THEN q
        ELSE IF 2 * r > d THEN q + 1
        ELSE IF q % 2 = 0 THEN q ELSE q + 1

-----------------------------------------------------------------------------
(* Bounds of the model. *)
MaxRows == 12           \* most frames of a table before its last frame repeats
MaxDwell == 1           \* most repetitions of the last frame at the end of a table

(* Program constants. *)
NSamples == 100         \* generate_target_line(100)
OutlierMinRows == 10    \* len(df) > 10
QuantNum == 49          \* quantile(0.98) = 49/50
QuantDen == 50
MmPerM == 1000          \* metres to millimetres
RadiusDen == 2          \* np.linspace(0, 0.5, n): the radius is 1/2
NoMvtDen == 10          \* total_distance < 0.1 and mag_pt < 0.1: the threshold is 1/10
Threshold == 40         \* assess_path_deviation(threshold=40), degrees
PoseScale == 10000      \* round(4): poses are counted in 1/10000

Fine == MmPerM          \* a fine unit is 1/(PoseScale*MmPerM): raw metres times MmPerM are whole pose units

Directions == {"a", "b", "c", "d", "e", "f", "g", "h"}

-----------------------------------------------------------------------------
(* asterisk_hand_data.py: the ideal paths.  np.linspace(0, 0.5, n)[i] is i  *)
(* sample steps.                                                           *)
linspace(num_points) == [i \in 1..num_points |-> i - 1]

straight(num_points, mod) ==
    LET vals == linspace(num_points)
        z == [i \in 1..num_points |-> 0]
        set1 == [i \in 1..num_points |-> mod * vals[i]]
    IN  <<set1, z>>

diagonal(num_points, mod1, mod2) ==
    LET coords == linspace(num_points)
        set1 == [i \in 1..num_points |-> mod1 * coords[i]]
        set2 == [i \in 1..num_points |-> mod2 * coords[i]]
    IN  <<set1, set2>>

(* each get_x returns <<x_coords, y_coords>> *)
get_a(num_points) == LET r == straight(num_points, 1) IN <<r[2], r[1]>>
get_b(num_points) == diagonal(num_points, 1, 1)
get_c(num_points) == straight(num_points, 1)
get_d(num_points) == diagonal(num_points, 1, -1)
get_e(num_points) == LET r == straight(num_points, -1) IN <<r[2], r[1]>>
get_f(num_points) == diagonal(num_points, -1, -1)
get_g(num_points) == straight(num_points, -1)
get_h_downward(num_points) == diagonal(num_points, -1, -1)
get_h(num_points) == diagonal(num_points, -1, 1)

(* aplt.get_direction(code, n_samples): the ideal path of a direction code. *)
get_direction(code, n_samples) ==
    CASE code = Str("a") -> get_a(n_samples)
      [] code = Str("b") -> get_b(n_samples)
      [] code = Str("c") -> get_c(n_samples)
      [] code = Str("d") -> get_d(n_samples)
      [] code = Str("e") -> get_e(n_samples)
      [] code = Str("f") -> get_f(n_samples)
      [] code = Str("g") -> get_g(n_samples)
      [] code = Str("h") -> get_h(n_samples)

(* np.column_stack((x_vals, y_vals)) *)
column_stack(xy) == [i \in 1..Len(xy[1]) |-> <<xy[1][i], xy[2][i]>>]

-----------------------------------------------------------------------------
(* ast_hand_info.py: the '.hand_dimensions' table, name -> <<mx_span, mx_depth>>. *)
hand_dimensions == [h \in {Str("2v2")} |-> <<2, 3>>]

(* HandInfo(name): _load_measurements looks the name up (dims_df.loc raises *)
(* KeyError for a name that is not in the table).                          *)
HandKnown(name) == name \in DOMAIN hand_dimensions
HandInfo(name) ==
    [hand_name |-> name, span |-> hand_dimensions[name][1], depth |-> hand_dimensions[name][2]]

-----------------------------------------------------------------------------
(* _condition_df.  A table is [header |-> the columns after set_index, in  *)
(* file order, rows |-> records of the cells that are read later].         *)
Position(header, col) == CHOOSE i \in DOMAIN header : header[i] = col

(* df * [1., 1., 1., 1000., 1000., 1000., 1., 1000.] : by column position *)
ScaleList == <<1, 1, 1, MmPerM, MmPerM, MmPerM, 1, MmPerM>>
(* df / [1., 1., 1., 1., span, depth, 1., 1.] : by column position *)
NormList(h) == <<1, 1, 1, 1, h.span, h.depth, 1, 1>>

(* the passes in the opposite order *)
CondColsReversed == <<"rmag", "y", "x">>

(* for col in ["x", "y", "rmag"] *)
CondCols == <<"x", "y", "rmag">>

Cell(row, col) ==
    CASE col = "x" -> row.x
      [] col = "y" -> row.y
      [] col = "rmag" -> row.rmag

ScaleRow(row, header) ==
    [frame |-> row.frame,
     x |-> row.x * ScaleList[Position(header, "x")],
     y |-> row.y * ScaleList[Position(header, "y")],
     rmag |-> row.rmag * ScaleList[Position(header, "rmag")]]

(* (cell / divisor).round(4), kept in fine units *)
NormCell(v, d) == RoundHalfEven(v, d * Fine) * Fine

NormRow(row, header, h) ==
    [frame |-> row.frame,
     x |-> NormCell(row.x, NormList(h)[Position(header, "x")]),
     y |-> NormCell(row.y, NormList(h)[Position(header, "y")]),
     rmag |-> NormCell(row.rmag, NormList(h)[Position(header, "rmag")])]

(* the final df.round(4): from fine units to pose units *)
RoundRow(row) ==
    [frame |-> row.frame,
     x |-> RoundHalfEven(row.x, Fine),
     y |-> RoundHalfEven(row.y, Fine),
     rmag |-> RoundHalfEven(row.rmag, Fine)]

RoundRows(df) == [i \in 1..Len(df) |-> RoundRow(df[i])]

(* k-th smallest (k from 0) of the values of a column *)
Kth(df, col, k) ==
    CHOOSE v \in {Cell(df[i], col) : i \in 1..Len(df)} :
        /\ Cardinality({i \in 1..Len(df) : Cell(df[i], col) < v}) <= k
        /\ k < Cardinality({i \in 1..Len(df) : Cell(df[i], col) <= v})

(* df[col].quantile(0.98) with pandas' linear interpolation, times QuantDen *)
quantile(df, col) ==
    LET n == Len(df)
        pos == (n - 1) * QuantNum
        lo == pos \div QuantDen
        fr == pos % QuantDen
        hi == Min2(lo + 1, n - 1)
    IN  QuantDen * Kth(df, col, lo) + fr * (Kth(df, col, hi) - Kth(df, col, lo))

(* df = df[(df[col] < q_hi)]; the quantile of an empty column is NaN and   *)
(* the comparison with NaN keeps nothing                                   *)
KeepRow(v, q_hi) == QuantDen * v < q_hi

FilterPass(df, col) ==
    IF Len(df) = 0 THEN df
    ELSE LET q_hi == quantile(df, col)
         IN  SelectSeq(df, LAMBDA row : KeepRow(Cell(row, col), q_hi))

RECURSIVE FilterCols(_, _)
FilterCols(df, cols) ==
    IF cols = <<>> THEN df
    ELSE FilterCols(FilterPass(df, Head(cols)), Tail(cols))

(* the removal applied from 10 rows on *)
RemoveOutliersFromTen(df) ==
    IF Len(df) >= OutlierMinRows THEN FilterCols(df, CondCols) ELSE df

(* if len(df) > 10: the three passes *)
RemoveOutliers(df) ==
    IF Len(df) > OutlierMinRows THEN FilterCols(df, CondCols) ELSE df

(* _condition_df: None when the arithmetic by position raises (a table of  *)
(* other than eight columns cannot be multiplied by the list of eight)     *)
ConditionRaises(table) == Len(table.header) # Len(ScaleList)

(* the table as the outlier removal receives it: scaled, and normalized   *)
(* and rounded when norm_data is set                                      *)
Prepared(table, h, norm) ==
    LET scaled == [i \in 1..Len(table.rows) |-> ScaleRow(table.rows[i], table.header)]
    IN  IF norm THEN [i \in 1..Len(scaled) |-> NormRow(scaled[i], table.header, h)]
        ELSE scaled

condition_df(table, h, norm) ==
    RoundRows(RemoveOutliers(Prepared(table, h, norm)))

(* the file a path relative to the working directory names: the data      *)
(* folders are in the home directory of the repository                     *)
FileAt(dir, file) == IF dir = "home" THEN file ELSE None

(* _read_file: None when read_csv or _condition_df raises *)
read_file(file, h, norm) ==
    IF file = None \/ ConditionRaises(Get(file)) THEN None
    ELSE Some(condition_df(Get(file), h, norm))

-----------------------------------------------------------------------------
(* asterisk_calculations (acalc): the geometry primitives used by the trial. *)

(* t_distance(p, q): planar Euclidean distance, as its square *)
t_distance(p, q) == (p[1] - q[1]) * (p[1] - q[1]) + (p[2] - q[2]) * (p[2] - q[2])

(* The squared distance from obj_pose (pose units) to the path point pt     *)
(* (sample steps of a path of n points), less the squared length of         *)
(* obj_pose, times the positive factor RadiusDen*(n-1)^2*PoseScale.         *)
PoseDistKey(obj_pose, pt, n) ==
    (PoseScale \div RadiusDen) * (pt[1] * pt[1] + pt[2] * pt[2])
        - 2 * (n - 1) * (pt[1] * obj_pose[1] + pt[2] * obj_pose[2])

(* narrow_target(obj_pose, target_poses): the index (from 0) of the point  *)
(* of target_poses closest to obj_pose; the first one when several are.    *)
narrow_target(obj_pose, target_poses) ==
    LET n == Len(target_poses)
        keys == [i \in 1..n |-> PoseDistKey(obj_pose, target_poses[i], n)]
        least == CHOOSE v \in Range(keys) : \A j \in 1..n : v <= keys[j]
        best == CHOOSE i \in 1..n : keys[i] = least /\ \A j \in 1..(i - 1) : keys[j] # least
    IN  best - 1

(* the tangent of a threshold angle, as a fraction: tan(40 deg) is taken   *)
(* as 485/578                                                              *)
TanOf(threshold) == CASE threshold = 40 -> <<485, 578>>

(* angle_between(p1, p2) > threshold or angle_between(p1, p2) < -threshold, *)
(* p1 in sample steps and p2 in pose units.  The angle is the arccos of the *)
(* clipped dot product of the unit vectors, in degrees in [0, 180], so it   *)
(* is never below -threshold; a zero vector makes it NaN, which compares    *)
(* false.                                                                   *)
angle_exceeds(p1, p2, threshold) ==
    LET dot == p1[1] * p2[1] + p1[2] * p2[2]
        cross == p1[1] * p2[2] - p1[2] * p2[1]
    IN  /\ p1 # <<0, 0>>
        /\ p2 # <<0, 0>>
        /\ \/ dot <= 0
           \/ TanOf(threshold)[2] * Abs(cross) > TanOf(threshold)[1] * dot

-----------------------------------------------------------------------------
(* AsteriskTrialData: the methods used by the constructor. *)

(* s, h, t, r, e = file_name.split("_"); n, _ = e.split("."): unpacking a  *)
(* list of another length raises ValueError                                *)
parse_name(name) ==
    LET parts == split(name, "_")
    IN  IF Len(parts) # 5 \/ Len(split(parts[5], ".")) # 2
        THEN [exc |-> "ValueError"]
        ELSE [exc |-> "none", s |-> parts[1], h |-> parts[2], t |-> parts[3],
              r |-> parts[4], n |-> split(parts[5], ".")[1]]

(* the name with the direction and the rotation mode exchanged *)
generate_name_exchanged(s, h, t, r, n) ==
    s \o Str("_") \o h.hand_name \o Str("_") \o r \o Str("_") \o t \o Str("_") \o n

(* generate_name: f"{subject}_{hand.get_name()}_{translation}_{rotation}_{num}" *)
generate_name(s, h, t, r, n) ==
    s \o Str("_") \o h.hand_name \o Str("_") \o t \o Str("_") \o r \o Str("_") \o n

(* the slices of generate_target_line *)
FallbackLineOnePoint(ideal) == Take(ideal, 1)
TruncatedLine(ideal, target_line_length) == Take(ideal, target_line_length)
FallbackLine(ideal) == Take(ideal, 2)
(* the index of the point whose distance is total_distance *)
DistanceIndex(target_line_length) == target_line_length + 1

(* generate_target_line(n_samples): [exc, line, dist] *)
generate_target_line(p, translation, n_samples) ==
    LET ideal == column_stack(get_direction(translation, n_samples))
    IN  IF Len(p) = 0
        THEN [exc |-> "IndexError", line |-> <<>>, dist |-> 0]    \* poses.tail(1).to_numpy()[0]
        ELSE
        LET last == p[Len(p)]
            last_obj_pose == <<last.x, last.y, last.rmag>>
            target_line_length == narrow_target(last_obj_pose, ideal)
        IN  IF target_line_length # 0
            THEN IF ~InRange(ideal, DistanceIndex(target_line_length))
                 THEN [exc |-> "IndexError", line |-> <<>>, dist |-> 0]
                 ELSE [exc |-> "none",
                       line |-> TruncatedLine(ideal, target_line_length),
                       dist |-> t_distance(<<0, 0>>,
                                           At(ideal, DistanceIndex(target_line_length)))]
            ELSE [exc |-> "none",
                  line |-> FallbackLine(ideal),
                  dist |-> t_distance(<<0, 0>>, At(ideal, 1))]

(* the target rotation with a signed target for the 15-degree modes *)
generate_target_rot_signed(rotation, p, is_filtered) ==
    IF rotation \in {Str("cw"), Str("ccw")} THEN
        IF Len(p) = 0 THEN <<>> ELSE <<p[Len(p)].rmag>>
    ELSE IF rotation = Str("p15") THEN <<15 * PoseScale>>
    ELSE IF rotation = Str("m15") THEN <<-15 * PoseScale>>
    ELSE <<0>>

(* generate_target_rot: a list of one value, in pose units *)
generate_target_rot(rotation, p, is_filtered) ==
    IF rotation \in {Str("cw"), Str("ccw")} THEN
        IF Len(p) = 0 THEN <<>>
        ELSE IF is_filtered THEN <<p[Len(p)].f_rmag>> ELSE <<p[Len(p)].rmag>>
    ELSE IF rotation \in {Str("p15"), Str("m15")} THEN <<15 * PoseScale>>
    ELSE <<0>>

(* self.total_distance < 0.1, the distance being dist sample steps squared *)
IsNoMvt(dist) ==
    NoMvtDen * NoMvtDen * dist < RadiusDen * RadiusDen * (NSamples - 1) * (NSamples - 1)

(* mag_pt < 0.1 for a pose *)
TooShort(x, y) ==
    x * x + y * y < (PoseScale \div NoMvtDen) * (PoseScale \div NoMvtDen)

(* the screening that also looks at the first point of the trajectory *)
assess_path_deviation_from_first(line, p, threshold) ==
    LET last_target_pt == line[Len(line)]
    IN  \E i \in 1..Len(p) :
            /\ ~(p[i].x = 0 /\ p[i].y = 0)
            /\ ~TooShort(p[i].x, p[i].y)
            /\ angle_exceeds(last_target_pt, <<p[i].x, p[i].y>>, threshold)

(* assess_path_deviation(threshold) *)
assess_path_deviation(line, p, threshold) ==
    LET last_target_pt == line[Len(line)]
    IN  \E i \in 2..Len(p) :
            /\ ~(p[i].x = 0 /\ p[i].y = 0)
            /\ ~TooShort(p[i].x, p[i].y)
            /\ angle_exceeds(last_target_pt, <<p[i].x, p[i].y>>, threshold)

-----------------------------------------------------------------------------
(* update_all_metrics.  Each acalc.calc_* call either returns or raises;    *)
(* what it does is an input of the model.                                   *)
CalcOrder == <<"fd", "mvt", "max_err", "area", "region">>
Calcs == Range(CalcOrder)
Errors == {"RuntimeWarning", "IndexError", "ZeroDivisionError"}
Outcomes == {"ok"} \cup Errors

(* the except clause around each call *)
Catches(c) ==
    CASE c = "fd" -> {}                          \* no try
      [] c = "mvt" -> {"RuntimeWarning"}         \* except RuntimeWarning
      [] c = "max_err" -> {"RuntimeWarning"}     \* except RuntimeWarning
      [] c = "area" -> Errors                    \* bare except
      [] c = "region" -> {"IndexError"}          \* except IndexError

Uncaught(c, out) == out # "ok" /\ out \notin Catches(c)

(* the position in CalcOrder of the first call whose exception leaves      *)
(* update_all_metrics, 0 when none does                                    *)
FirstUncaught(o) ==
    IF \E i \in DOMAIN CalcOrder : Uncaught(CalcOrder[i], o[CalcOrder[i]])
    THEN CHOOSE i \in DOMAIN CalcOrder :
             /\ Uncaught(CalcOrder[i], o[CalcOrder[i]])
             /\ \A j \in 1..(i - 1) : ~Uncaught(CalcOrder[j], o[CalcOrder[j]])
    ELSE 0

(* the calls made, each with what it did: a call after the one that leaves *)
(* the method is not made                                                  *)
CallsMade(o) ==
    LET f == FirstUncaught(o)
    IN  [c \in Calcs |->
            IF f # 0 /\ (CHOOSE i \in DOMAIN CalcOrder : CalcOrder[i] = c) > f
            THEN "notcalled" ELSE o[c]]

(* every way a run of update_all_metrics can go *)
Runs == {CallsMade(o) : o \in [Calcs -> Outcomes]}

(* acalc.calc_max_error(self, arc_len): the maximum error scaled by the    *)
(* arc length it is given                                                  *)
calc_max_error(arc_len) ==
    IF arc_len = "arc_len" THEN "max_err/arc_len" ELSE "max_err/(-1)"

(* the values of a metric record are named, not computed: "t_fd" is the    *)
(* value calc_frechet_distance returns for this trial, and so on           *)
metric_dict(o, name, dist) ==
    LET mvt_efficiency == IF o["mvt"] = "ok" THEN "mvt_eff" ELSE "-1"
        arc_len == IF o["mvt"] = "ok" THEN "arc_len" ELSE "-1"
        max_error == IF o["max_err"] = "ok" THEN calc_max_error(arc_len) ELSE "0"
        area_btwn == IF o["area"] = "ok" THEN "area_btwn" ELSE "-1"
        max_area_region == IF o["region"] = "ok" THEN "max_a_reg" ELSE "-1"
        max_area_loc == IF o["region"] = "ok" THEN "max_a_loc" ELSE "-1"
    IN  [trial |-> name, dist |-> dist, t_fd |-> "t_fd", r_fd |-> "r_fd",
         max_err |-> max_error, mvt_eff |-> mvt_efficiency, arc_len |-> arc_len,
         area_btwn |-> area_btwn, max_a_reg |-> max_area_region,
         max_a_loc |-> max_area_loc]

(* update_all_metrics under the outcomes o: [exc, metrics] *)
update_all_metrics(o, name, dist) ==
    LET f == FirstUncaught(o)
    IN  IF f # 0 THEN [exc |-> o[CalcOrder[f]], metrics |-> None]
        ELSE [exc |-> "none", metrics |-> Some(metric_dict(o, name, dist))]

-----------------------------------------------------------------------------
(* moving_average and save_data. *)
DefaultWindow == 15     \* moving_average(window_size=15)

RECURSIVE SumCol(_, _, _, _)
SumCol(p, col, lo, hi) ==
    IF lo > hi THEN 0 ELSE Cell(p[hi], col) + SumCol(p, col, lo, hi - 1)

(* poses[col].rolling(window=window_size, min_periods=1).mean() at row i,  *)
(* then round(4)                                                           *)
rolling_mean(p, col, i, window) ==
    LET lo == IF i - window + 1 < 1 THEN 1 ELSE i - window + 1
    IN  RoundHalfEven(SumCol(p, col, lo, i), i - lo + 1)

(* a moving average written over the raw columns *)
moving_average_in_place(p, window) ==
    [i \in 1..Len(p) |->
        [frame |-> p[i].frame,
         x |-> rolling_mean(p, "x", i, window),
         y |-> rolling_mean(p, "y", i, window),
         rmag |-> rolling_mean(p, "rmag", i, window),
         f_x |-> rolling_mean(p, "x", i, window),
         f_y |-> rolling_mean(p, "y", i, window),
         f_rmag |-> rolling_mean(p, "rmag", i, window)]]

(* moving_average(window_size): the poses with their f_ columns; the       *)
(* round(4) of line 226 leaves the raw columns, which have 4 decimals      *)
moving_average(p, window) ==
    [i \in 1..Len(p) |->
        [frame |-> p[i].frame,
         x |-> RoundHalfEven(p[i].x, 1),
         y |-> RoundHalfEven(p[i].y, 1),
         rmag |-> RoundHalfEven(p[i].rmag, 1),
         f_x |-> rolling_mean(p, "x", i, window),
         f_y |-> rolling_mean(p, "y", i, window),
         f_rmag |-> rolling_mean(p, "rmag", i, window)]]

(* save_data without the prefix of the filtered data *)
save_data_unprefixed(name, overwrite, is_filtered, window) ==
    LET new_file_name == (IF overwrite = None THEN name ELSE Get(overwrite))
                             \o <<".", "csv">>
    IN  [path |-> <<"trial", "_", "paths/">> \o new_file_name,
         columns |-> IF is_filtered
                     THEN <<"x", "y", "rmag", "f_x", "f_y", "f_rmag">>
                     ELSE <<"x", "y", "rmag">>]

(* save_data(file_name_overwrite): the path written and its columns *)
save_data(name, overwrite, is_filtered, window) ==
    LET folder == <<"trial", "_", "paths/">>
        new_file_name == (IF overwrite = None THEN name ELSE Get(overwrite))
                             \o <<".", "csv">>
    IN  IF is_filtered
        THEN [path |-> folder \o <<"f" \o ToString(window), "_">> \o new_file_name,
              columns |-> <<"x", "y", "rmag", "f_x", "f_y", "f_rmag">>]
        ELSE [path |-> folder \o new_file_name,
              columns |-> <<"x", "y", "rmag">>]

-----------------------------------------------------------------------------
(* The inputs: file names and the pose tables behind them. *)
Subjects == {"sub1"}
HandNames == {"2v2", "3v3"}         \* "3v3" is not in hand_dimensions
Rotations == {"n", "cw", "p15"}
TrialNums == {"1"}

(* f"{s}_{hand}_{t}_{r}_{n}.csv", the name the pose files are written under *)
FileNameOf(s, h, t, r, n) ==
    <<s, "_", h, "_", t, "_", r, "_", n, ".", "csv">>

(* the other rotation modes, for the trials of one hand in one direction *)
OtherRotations == {"ccw", "m15"}

FileNames ==
    {FileNameOf(s, h, t, r, n) :
        s \in Subjects, h \in HandNames, t \in Directions, r \in Rotations,
        n \in TrialNums}
    \cup {FileNameOf("sub1", "2v2", "c", r, "1") : r \in OtherRotations}

(* the header the conditioning was written for *)
Header8 == <<"pitch", "rmag", "roll", "tmag", "x", "y", "yaw", "z">>

(* A table of n frames moving by step per frame from the origin, the last  *)
(* frame repeated dwell more times.  Cells are raw: fine units.            *)
Ramp(step, n, dwell) ==
    [header |-> Header8,
     rows |-> [j \in 1..(n + dwell) |->
                  LET m == Min2(j - 1, n - 1)
                  IN  [frame |-> j - 1, x |-> m * step[1], y |-> m * step[2],
                       rmag |-> m * step[3]]]]

StepDirs == {<<1, 0>>, <<0, 1>>, <<1, 1>>, <<-1, 0>>, <<1, -1>>}
LongDirs == {<<1, 0>>, <<1, 1>>, <<-1, 1>>}
ShortMags == {0, 90, 3000, 9900, 10400}
RotSteps == {0, 30000}

ShortTables ==
    {Ramp(<<d[1] * m, d[2] * m, r>>, 2, 0) : d \in StepDirs, m \in ShortMags, r \in RotSteps}
LongTables ==
    {Ramp(<<d[1] * 600, d[2] * 600, r>>, n, w) :
        d \in LongDirs, r \in RotSteps, n \in OutlierMinRows..MaxRows, w \in 0..MaxDwell}

(* A table of the frames pts, each <<x, y, rmag>> in fine units. *)
Track(pts) ==
    [header |-> Header8,
     rows |-> [j \in 1..Len(pts) |->
                  [frame |-> j - 1, x |-> pts[j][1], y |-> pts[j][2], rmag |-> pts[j][3]]]]

(* A track of n frames whose largest values lie in different frames: the   *)
(* last two frames share the largest x, the last frame has the largest y   *)
(* and the first the next one, the second frame has the largest rmag and   *)
(* the third the next one.                                                 *)
Spiked(n) ==
    Track([j \in 1..n |->
              <<600 * Min2(j - 1, n - 2),
                IF j = 1 THEN 600 * (n - 1) ELSE IF j = n THEN 600 * n ELSE 600 * (j - 1),
                IF j = 2 THEN 30000 ELSE IF j = 3 THEN 20000 ELSE 0>>])
SpikedTables == {Spiked(n) : n \in (OutlierMinRows + 1)..MaxRows}

(* Tracks of three frames with one frame far off the others' direction:    *)
(* the first frame, or the middle one.                                     *)
PlantedTables ==
    {Track(<<<<-3000, 3000, 0>>, <<1500, 0, 0>>, <<3000, 0, 0>>>>),
     Track(<<<<0, 0, 0>>, <<-3000, 3000, 0>>, <<3000, 0, 0>>>>),
     Track(<<<<0, 0, 0>>, <<-600, 600, 0>>, <<3000, 0, 0>>>>)}

(* The same fields under other column orders: x and rmag exchanged, and    *)
(* the order roll, pitch, yaw, tmag, x, y, rmag (no z column).             *)
HeaderExchanged == <<"pitch", "x", "roll", "tmag", "rmag", "y", "yaw", "z">>
HeaderNoZ == <<"roll", "pitch", "yaw", "tmag", "x", "y", "rmag">>
Reordered(table, header) == [header |-> header, rows |-> table.rows]
ReorderedTables ==
    {Reordered(t, h) :
        t \in {Ramp(<<3000, 0, 30000>>, 2, 0), Ramp(<<0, 3000, 0>>, 2, 0)},
        h \in {HeaderExchanged, HeaderNoZ}}

Tables == ShortTables \cup LongTables \cup SpikedTables \cup PlantedTables
              \cup ReorderedTables

NoCalls == [c \in Calcs |-> "notcalled"]

(* no trial has been built yet *)
Unbuilt ==
    /\ pc = "parse"
    /\ raised = "none"
    /\ hand = None
    /\ poses = None
    /\ subject = None
    /\ trial_translation = None
    /\ trial_rotation = None
    /\ trial_num = None
    /\ filtered = None
    /\ window_size = None
    /\ target_line = None
    /\ target_rotation = None
    /\ total_distance = None
    /\ metrics = None
    /\ labels = None
    /\ calls = NoCalls
    /\ log = <<>>
    /\ saved = None
    /\ cwd = "home"
    /\ viewer = "idle"
    /\ table_reads = 0
    /\ trials = 1

Init ==
    /\ file_name \in FileNames
    /\ do_metrics \in BOOLEAN
    /\ norm_data \in BOOLEAN
    /\ csv \in {None} \cup {Some(t) : t \in Tables}
    /\ Unbuilt
    /\ call = None
    /\ returned = None

(* the state of a program that builds no trial *)
NoTrial ==
    /\ file_name = FileNameOf("sub1", "2v2", "a", "n", "1")
    /\ do_metrics = FALSE
    /\ norm_data = FALSE
    /\ csv = None
    /\ Unbuilt

inputs == <<file_name, do_metrics, norm_data, csv>>
process == <<cwd, viewer, trials>>
tools == <<call, returned>>
trial ==
    <<pc, raised, hand, poses, subject, trial_translation, trial_rotation, trial_num,
      filtered, window_size, target_line, target_rotation, total_distance, metrics, labels,
      calls, log, saved, table_reads>>

Raise(exc) == pc' = "raised" /\ raised' = exc

-----------------------------------------------------------------------------
(* AsteriskTrialData.__init__(file_name, do_metrics, norm_data), statement  *)
(* by statement.                                                            *)

(* lines 37-40: split the name, self.hand = HandInfo(h) *)
ParseName ==
    /\ pc = "parse"
    /\ LET id == parse_name(file_name)
       IN  IF id.exc # "none"
           THEN /\ Raise(id.exc)
                /\ UNCHANGED <<hand, table_reads>>
           ELSE IF cwd # "home"         \* pd.read_csv('.hand_dimensions'): no such file here
           THEN /\ Raise("FileNotFoundError")
                /\ UNCHANGED <<hand, table_reads>>
           ELSE IF HandKnown(id.h)
           THEN /\ hand' = Some(HandInfo(id.h))
                /\ table_reads' = table_reads + 1
                /\ pc' = "read"
                /\ UNCHANGED raised
           ELSE /\ Raise("KeyError")
                /\ table_reads' = table_reads + 1
                /\ UNCHANGED hand
    /\ UNCHANGED <<inputs, tools, process, saved, poses, subject, trial_translation, trial_rotation, trial_num,
                   filtered, window_size, target_line, target_rotation, total_distance,
                   metrics, labels, calls, log>>

(* lines 43-44: data = self._read_file(...); self.poses = data[["x", "y", "rmag"]] *)
ReadPoses ==
    /\ pc = "read"
    /\ LET data == read_file(FileAt(cwd, csv), Get(hand), norm_data)
       IN  IF data = None
           THEN /\ Raise("TypeError")       \* None is not subscriptable
                /\ UNCHANGED poses
           ELSE /\ poses' = data
                /\ pc' = "fields"
                /\ UNCHANGED raised
    /\ log' = IF FileAt(cwd, csv) = None THEN <<"_read_file">>
              ELSE <<"_read_file", "_condition_df">>
    /\ UNCHANGED <<inputs, tools, process, saved, table_reads, hand, subject, trial_translation, trial_rotation, trial_num,
                   filtered, window_size, target_line, target_rotation, total_distance,
                   metrics, labels, calls>>

(* lines 50-68: the identity and the predefined attributes *)
SetFields ==
    /\ pc = "fields"
    /\ subject' = Some(parse_name(file_name).s)
    /\ trial_translation' = Some(parse_name(file_name).t)
    /\ trial_rotation' = Some(parse_name(file_name).r)
    /\ trial_num' = Some(parse_name(file_name).n)
    /\ filtered' = Some(FALSE)
    /\ window_size' = Some(0)
    /\ target_line' = None
    /\ target_rotation' = None
    /\ total_distance' = None
    /\ metrics' = None
    /\ labels' = Some(<<>>)
    /\ pc' = "target"
    /\ UNCHANGED <<inputs, tools, process, saved, table_reads, raised, hand, poses, calls, log>>

(* lines 71-72: generate_target_line(100), generate_target_rot() *)
SynthesizeTarget ==
    /\ pc = "target"
    /\ LET r == generate_target_line(Get(poses), Get(trial_translation), NSamples)
       IN  IF r.exc # "none"
           THEN /\ Raise(r.exc)
                /\ log' = Append(log, "generate_target_line")
                /\ UNCHANGED <<target_line, total_distance, target_rotation>>
           ELSE /\ target_line' = Some(r.line)
                /\ total_distance' = Some(r.dist)
                /\ target_rotation' =
                       Some(generate_target_rot(Get(trial_rotation), Get(poses), Get(filtered)))
                /\ log' = log \o <<"generate_target_line", "generate_target_rot">>
                /\ pc' = "nomvt"
                /\ UNCHANGED raised
    /\ UNCHANGED <<inputs, tools, process, saved, table_reads, hand, poses, subject, trial_translation, trial_rotation,
                   trial_num, filtered, window_size, metrics, labels, calls>>

(* lines 74-76: the no-movement label *)
LabelNoMvt ==
    /\ pc = "nomvt"
    /\ labels' = IF IsNoMvt(Get(total_distance))
                 THEN Some(Append(Get(labels), "no_mvt")) ELSE labels
    /\ pc' = "screen"
    /\ UNCHANGED <<inputs, tools, process, saved, table_reads, raised, hand, poses, subject, trial_translation, trial_rotation,
                   trial_num, filtered, window_size, target_line, target_rotation,
                   total_distance, metrics, calls, log>>

(* lines 78-80 left out: the constructor goes on to the metrics unscreened *)
ScreenDeviationSkipped ==
    /\ pc = "screen"
    /\ pc' = "metrics"
    /\ UNCHANGED <<inputs, tools, process, saved, table_reads, raised, hand, poses, subject, trial_translation, trial_rotation,
                   trial_num, filtered, window_size, target_line, target_rotation,
                   total_distance, metrics, labels, calls, log>>

(* lines 78-80: the deviation label *)
ScreenDeviation ==
    /\ pc = "screen"
    /\ labels' = IF assess_path_deviation(Get(target_line), Get(poses), Threshold)
                 THEN Some(Append(Get(labels), "deviation")) ELSE labels
    /\ log' = Append(log, "assess_path_deviation")
    /\ pc' = "metrics"
    /\ UNCHANGED <<inputs, tools, process, saved, table_reads, raised, hand, poses, subject, trial_translation, trial_rotation,
                   trial_num, filtered, window_size, target_line, target_rotation,
                   total_distance, metrics, calls>>

(* line 82 without its test of the labels *)
MetricsWantedIgnoringLabels ==
    do_metrics /\ poses # None

(* line 82: the condition under which the metrics are computed *)
MetricsWanted ==
    do_metrics /\ poses # None /\ "no_mvt" \notin Range(Get(labels))

(* lines 82-83: self.update_all_metrics() *)
ComputeMetrics ==
    /\ pc = "metrics"
    /\ IF MetricsWanted
       THEN \E o \in Runs :
                LET r == update_all_metrics(
                             o,
                             generate_name(Get(subject), Get(hand), Get(trial_translation),
                                           Get(trial_rotation), Get(trial_num)),
                             Get(total_distance))
                IN  /\ calls' = o
                    /\ log' = Append(log, "update_all_metrics")
                    /\ IF r.exc # "none"
                       THEN Raise(r.exc) /\ UNCHANGED metrics
                       ELSE metrics' = r.metrics /\ pc' = "done" /\ UNCHANGED raised
       ELSE /\ pc' = "done"
            /\ UNCHANGED <<raised, metrics, calls, log>>
    /\ UNCHANGED <<inputs, tools, process, saved, table_reads, hand, poses, subject, trial_translation, trial_rotation,
                   trial_num, filtered, window_size, target_line, target_rotation,
                   total_distance, labels>>

(* asterisk_hand_data._gather_trials, lines 47-53, for one file name: the   *)
(* try body raises AttributeError at trial.AsteriskTrial (asterisk_trial    *)
(* defines AsteriskTrialData only), the bare except prints "Skipping." and  *)
(* the loop goes on; nothing is appended and nothing is raised.             *)
GatherTrials ==
    /\ pc = "parse"
    /\ pc' = "skipped"
    /\ UNCHANGED <<inputs, tools, process, saved, table_reads, raised, hand, poses, subject, trial_translation,
                   trial_rotation, trial_num, filtered, window_size, target_line,
                   target_rotation, total_distance, metrics, labels, calls, log>>

(* the windows and the other file names the model calls the methods with *)
Windows == {2, DefaultWindow}
Overwrites == {None, Some(<<"out">>)}

(* trial.moving_average(window_size) on a constructed trial *)
MovingAverage ==
    /\ pc = "done"
    /\ \E window \in Windows :
           /\ poses' = Some(moving_average(Get(poses), window))
           /\ filtered' = Some(TRUE)
           /\ window_size' = Some(window)
    /\ UNCHANGED <<inputs, tools, process, saved, table_reads, pc, raised, hand, subject, trial_translation,
                   trial_rotation, trial_num, target_line, target_rotation,
                   total_distance, metrics, labels, calls, log>>

(* trial.save_data(file_name_overwrite) on a constructed trial *)
SaveData ==
    /\ pc = "done"
    /\ cwd = "home"         \* trial_paths/ is in the home directory
    /\ \E overwrite \in Overwrites :
           LET written == save_data(
                              generate_name(Get(subject), Get(hand), Get(trial_translation),
                                            Get(trial_rotation), Get(trial_num)),
                              overwrite, Get(filtered), Get(window_size))
           IN  saved' = Some([file_name_overwrite |-> overwrite,
                              path |-> written.path, columns |-> written.columns])
    /\ UNCHANGED <<inputs, tools, process, table_reads, pc, raised, hand, poses, subject,
                   trial_translation, trial_rotation, trial_num, filtered, window_size,
                   target_line, target_rotation, total_distance, metrics, labels, calls,
                   log>>

Next ==
    \/ GatherTrials
    \/ ParseName
    \/ ReadPoses
    \/ SetFields
    \/ SynthesizeTarget
    \/ LabelNoMvt
    \/ ScreenDeviation
    \/ ComputeMetrics

Spec == Init /\ [][Next]_vars

(* The constructor followed by the calls a program makes on the trial it    *)
(* built, for the trials of one hand in two directions.                     *)
UseTables ==
    {Ramp(<<0, 3000, 30000>>, 2, 0), Ramp(<<3000, 0, 0>>, 2, 0),
     Ramp(<<600, 0, 30000>>, MaxRows, MaxDwell), Ramp(<<600, 600, 0>>, OutlierMinRows, 0),
     Track(<<<<0, 0, 0>>, <<-3000, 3000, 0>>, <<3000, 0, 0>>>>)}

InitUse ==
    /\ Init
    /\ file_name \in {FileNameOf("sub1", "2v2", t, r, "1") : t \in {"a", "c"}, r \in Rotations}
    /\ csv \in {Some(t) : t \in UseTables}

NextUse ==
    \/ Next
    \/ MovingAverage
    \/ SaveData

SpecUse == InitUse /\ [][NextUse]_vars

(* AstData.view_images: it changes the working directory of the process to  *)
(* the home directory and then to the image folder of one trial, shows the  *)
(* images and asks whether to show them again.                              *)
ViewImages ==
    /\ viewer = "idle"
    /\ cwd' = "home"
    /\ viewer' = "30"
    /\ UNCHANGED <<inputs, tools, trials, saved, table_reads, pc, raised, hand, poses, subject,
                   trial_translation, trial_rotation, trial_num, filtered, window_size,
                   target_line, target_rotation, total_distance, metrics, labels, calls,
                   log>>

ChangeToImages ==
    /\ viewer = "30"
    /\ cwd' = "viz"
    /\ viewer' = "47"
    /\ UNCHANGED <<inputs, tools, trials, saved, table_reads, pc, raised, hand, poses, subject,
                   trial_translation, trial_rotation, trial_num, filtered, window_size,
                   target_line, target_rotation, total_distance, metrics, labels, calls,
                   log>>

ShowAgain ==
    /\ viewer = "47"
    /\ \E repeat \in {"y", "n"} :
           IF repeat = "y"
           THEN /\ cwd' = "home"
                /\ viewer' = "30"
           ELSE /\ viewer' = "quit"
                /\ UNCHANGED cwd
    /\ UNCHANGED <<inputs, tools, trials, saved, table_reads, pc, raised, hand, poses, subject,
                   trial_translation, trial_rotation, trial_num, filtered, window_size,
                   target_line, target_rotation, total_distance, metrics, labels, calls,
                   log>>

(* the program goes on to construct the next trial of its batch, from the   *)
(* same file: AsteriskHandData._gather_trials, one construction per file    *)
MaxTrials == 2
NextTrial ==
    /\ pc \in {"done", "raised", "skipped"}
    /\ trials < MaxTrials
    /\ trials' = trials + 1
    /\ pc' = "parse"
    /\ raised' = "none"
    /\ hand' = None
    /\ poses' = None
    /\ subject' = None
    /\ trial_translation' = None
    /\ trial_rotation' = None
    /\ trial_num' = None
    /\ filtered' = None
    /\ window_size' = None
    /\ target_line' = None
    /\ target_rotation' = None
    /\ total_distance' = None
    /\ metrics' = None
    /\ labels' = None
    /\ calls' = NoCalls
    /\ log' = <<>>
    /\ saved' = None
    /\ UNCHANGED <<inputs, tools, cwd, viewer, table_reads>>

ProcessTables == {Ramp(<<3000, 0, 0>>, 2, 0), Ramp(<<600, 600, 0>>, OutlierMinRows, 0)}

InitProcess ==
    /\ Init
    /\ file_name \in {FileNameOf("sub1", h, "c", "n", "1") : h \in HandNames}
    /\ csv \in {Some(t) : t \in ProcessTables}

NextProcess ==
    \/ Next
    \/ SaveData
    \/ ViewImages
    \/ ChangeToImages
    \/ ShowAgain
    \/ NextTrial

SpecProcess == InitProcess /\ [][NextProcess]_vars

(* asterisk_hand_data.py: the ideal path of each direction, for every       *)
(* number of points up to MaxPoints.                                        *)
MaxPoints == 8
GetFns == {"get_a", "get_b", "get_c", "get_d", "get_e", "get_f", "get_g", "get_h"}
get_path(fn, num_points) ==
    CASE fn = "get_a" -> get_a(num_points)
      [] fn = "get_b" -> get_b(num_points)
      [] fn = "get_c" -> get_c(num_points)
      [] fn = "get_d" -> get_d(num_points)
      [] fn = "get_e" -> get_e(num_points)
      [] fn = "get_f" -> get_f(num_points)
      [] fn = "get_g" -> get_g(num_points)
      [] fn = "get_h" -> get_h(num_points)

InitIdeal ==
    /\ NoTrial
    /\ call \in {Some([fn |-> f, num_points |-> n]) : f \in GetFns, n \in 1..MaxPoints}
    /\ returned = None

GetIdealPath ==
    /\ call # None
    /\ Get(call).fn \in GetFns
    /\ returned = None
    /\ returned' = Some(get_path(Get(call).fn, Get(call).num_points))
    /\ UNCHANGED <<inputs, process, trial, call>>

NextIdeal == GetIdealPath

SpecIdeal == InitIdeal /\ [][NextIdeal]_vars

(* The discrete Frechet distance of the metrics engine, by its recurrence:  *)
(* delta(i,j) = max(max(delta(i-1,j), delta(i,j-1), delta(i-1,j-1)),        *)
(* d(P_i,Q_j)), delta(first,first) = d(P_first,Q_first), and delta is       *)
(* infinite outside the table. Distances are squared Euclidean distances,   *)
(* which keeps their order; a value is Infinity or Some of a number.        *)
Infinity == <<>>
MaxInf(a, b) ==
    IF a = Infinity \/ b = Infinity THEN Infinity
    ELSE IF Get(a) >= Get(b) THEN a ELSE b
MinInf(a, b) ==
    IF a = Infinity THEN b
    ELSE IF b = Infinity THEN a
    ELSE IF Get(a) <= Get(b) THEN a ELSE b
PointDist(p, q) == (p[1] - q[1]) * (p[1] - q[1]) + (p[2] - q[2]) * (p[2] - q[2])

RECURSIVE delta_min(_, _, _, _)
delta_min(P, Q, i, j) ==
    IF i < 1 \/ j < 1 THEN Infinity
    ELSE IF i = 1 /\ j = 1 THEN Some(PointDist(P[1], Q[1]))
    ELSE MaxInf(MinInf(MinInf(delta_min(P, Q, i - 1, j), delta_min(P, Q, i, j - 1)),
                       delta_min(P, Q, i - 1, j - 1)),
                Some(PointDist(P[i], Q[j])))

RECURSIVE delta(_, _, _, _)
delta(P, Q, i, j) ==
    IF i < 1 \/ j < 1 THEN Infinity
    ELSE IF i = 1 /\ j = 1 THEN Some(PointDist(P[1], Q[1]))
    ELSE MaxInf(MaxInf(MaxInf(delta(P, Q, i - 1, j), delta(P, Q, i, j - 1)),
                       delta(P, Q, i - 1, j - 1)),
                Some(PointDist(P[i], Q[j])))

calc_frechet_distance_min(P, Q) == delta_min(P, Q, Len(P), Len(Q))
calc_frechet_distance(P, Q) == delta(P, Q, Len(P), Len(Q))

MaxPathLen == 3
PathPoints == {<<0, 0>>, <<1, 0>>, <<1, 1>>}
Paths == UNION {[1..n -> PathPoints] : n \in 1..MaxPathLen}

InitFrechet ==
    /\ NoTrial
    /\ call \in {Some([fn |-> "calc_frechet_distance", P |-> p, Q |-> q]) :
                     p \in Paths, q \in Paths}
    /\ returned = None

CalcFrechet ==
    /\ call # None
    /\ Get(call).fn = "calc_frechet_distance"
    /\ returned = None
    /\ returned' = Some(calc_frechet_distance(Get(call).P, Get(call).Q))
    /\ UNCHANGED <<inputs, process, trial, call>>

NextFrechet == CalcFrechet

SpecFrechet == InitFrechet /\ [][NextFrechet]_vars

(* asterisk_data_manager.py: AstNaming.add_option. A dictionary is a        *)
(* function from its keys to its values.                                    *)
SetItem(d, key, value) == [k \in DOMAIN d \cup {key} |-> IF k = key THEN value ELSE d[k]]
(* d.keys, the method itself, and d.keys(), the view the method returns *)
keys(d) == [kind |-> "method", of |-> DOMAIN d]
keys_called(d) == [kind |-> "view", of |-> DOMAIN d]
(* key in container: a method is not a container *)
In(key, container) ==
    IF container.kind = "view"
    THEN [exc |-> "none", value |-> key \in container.of]
    ELSE [exc |-> "TypeError", value |-> FALSE]

(* what add_option raises and returns, and the dictionary it leaves *)
add_option(options, key, new_options, overwrite) ==
    LET present == In(key, keys(options))
    IN  IF present.exc # "none"
        THEN [exc |-> present.exc, value |-> None, options |-> options]
        ELSE IF present.value
        THEN IF overwrite
             THEN [exc |-> "none", value |-> Some(TRUE),
                   options |-> SetItem(options, key, new_options)]
             ELSE [exc |-> "none", value |-> Some(FALSE), options |-> options]
        ELSE [exc |-> "none", value |-> Some(TRUE),
              options |-> SetItem(options, key, new_options)]

OptionKeys == {"subjects", "rotations", "grips"}
OptionLists == {<<"sub1", "sub2", "sub3">>, <<"n", "m15", "p15">>, <<"cw", "ccw">>}
OptionDicts == UNION {[ks -> OptionLists] : ks \in SUBSET {"subjects", "rotations"}}

InitNaming ==
    /\ NoTrial
    /\ call \in {Some([fn |-> "add_option", options |-> d, key |-> k, new_options |-> l,
                        overwrite |-> o]) :
                     d \in OptionDicts, k \in OptionKeys, l \in OptionLists, o \in BOOLEAN}
    /\ returned = None

AddOption ==
    /\ call # None
    /\ Get(call).fn = "add_option"
    /\ returned = None
    /\ LET c == Get(call)
       IN  returned' = Some(add_option(c.options, c.key, c.new_options, c.overwrite))
    /\ UNCHANGED <<inputs, process, trial, call>>

NextNaming == AddOption

SpecNaming == InitNaming /\ [][NextNaming]_vars

(* asterisk_aruco.py: AsteriskArucoVision.analyze_images over the sorted    *)
(* file list f of a trial whose first frame shows the tag. A file is a      *)
(* configuration file ("ini"), an image whose pose is found ("ok") or an    *)
(* image whose pose estimation raises ("fail"). The loop tests the module's *)
(* processing_freq, not the one the object was created with.                *)
processing_freq == 1

RECURSIVE analyze_loop(_, _, _)
analyze_loop(f, i, st) ==
    IF i > Len(f) THEN st
    ELSE IF f[i] = "ini" THEN analyze_loop(f, i + 1, st)
    ELSE IF st.total_counter % processing_freq > 0 THEN analyze_loop(f, i + 1, st)
    ELSE IF f[i] = "fail"
    THEN analyze_loop(f, i + 1,
             [st EXCEPT !.total_counter = @ + 1, !.attempted = Append(@, i)])
    ELSE analyze_loop(f, i + 1,
             [st EXCEPT !.total_counter = @ + 1, !.analyzed_successfully = @ + 1,
                        !.attempted = Append(@, i), !.rows = Append(@, i)])

(* self is the object's own processing_freq, set by __init__ *)
analyze_images(self, f) ==
    analyze_loop(f, 1, [total_counter |-> 0, analyzed_successfully |-> 0,
                        attempted |-> <<>>, rows |-> <<>>])

MaxImages == 3
Frequencies == 1..3
FileLists == UNION {[1..n -> {"ini", "ok", "fail"}] : n \in 0..MaxImages}

InitAruco ==
    /\ NoTrial
    /\ call \in {Some([fn |-> "analyze_images", processing_freq |-> k, f |-> l]) :
                     k \in Frequencies, l \in FileLists}
    /\ returned = None

AnalyzeImages ==
    /\ call # None
    /\ Get(call).fn = "analyze_images"
    /\ returned = None
    /\ returned' = Some(analyze_images(Get(call).processing_freq, Get(call).f))
    /\ UNCHANGED <<inputs, process, trial, call>>

NextAruco == AnalyzeImages

SpecAruco == InitAruco /\ [][NextAruco]_vars

-----------------------------------------------------------------------------
(* Properties. *)
Terminal == {"done", "raised"}
HasLabel(l) == labels # None /\ l \in Range(Get(labels))
MetricFields ==
    {"trial", "dist", "t_fd", "r_fd", "max_err", "mvt_eff", "arc_len", "area_btwn",
     "max_a_reg", "max_a_loc"}
(* a distance, given as its square in sample steps of the 100-point path,  *)
(* is below 0.1: d/(2*99)^2 < 1/100                                        *)
BelowTenth(d) == 100 * d < 4 * 99 * 99
IsPrefix(s, t) == Len(s) <= Len(t) /\ SubSeq(t, 1, Len(s)) = s
(* the i-th of the five parts a file name is written from *)
NamePiece(i) == Str(file_name[2 * i - 1])
(* the ideal path of the trial's direction, and the last pose *)
Ideal == column_stack(get_direction(NamePiece(3), NSamples))
LastPose == LET p == Get(poses) IN <<p[Len(p)].x, p[Len(p)].y, p[Len(p)].rmag>>

(* C1: a trial whose total_distance is below 0.1 is labeled "no_mvt" as    *)
(* soon as the threshold has been tested, update_all_metrics is never      *)
(* called for it and its metrics stay None, whatever the direction, the    *)
(* rotation mode and do_metrics.                                           *)
C1_NoMovementSkipsMetrics ==
    (total_distance # None /\ BelowTenth(Get(total_distance))) =>
        /\ metrics = None
        /\ calls = NoCalls
        /\ "update_all_metrics" \notin Range(log)
        /\ raised = "none"
        /\ pc \in {"screen", "metrics", "done"} => HasLabel("no_mvt")

C1_Witness ==
    /\ pc = "done"
    /\ do_metrics
    /\ BelowTenth(Get(total_distance))
    /\ HasLabel("no_mvt")
    /\ metrics = None

(* C2: when the source table cannot be read, the constructor does not     *)
(* raise: it ends with poses None, the identity of the file name and no    *)
(* metric computed.                                                        *)
C2_UnreadableDoesNotRaise ==
    (csv = None /\ HandKnown(NamePiece(2))) =>
        /\ raised = "none"
        /\ pc \in Terminal =>
              /\ pc = "done"
              /\ poses = None
              /\ subject = Some(NamePiece(1))
              /\ Get(hand).hand_name = NamePiece(2)
              /\ trial_translation = Some(NamePiece(3))
              /\ trial_rotation = Some(NamePiece(4))
              /\ trial_num = Some(NamePiece(5))
              /\ metrics = None

(* C3: once update_all_metrics has been called, it has returned and stored *)
(* a record of all ten fields, whichever calculation failed and whatever   *)
(* it failed with.                                                         *)
C3_MetricsAlwaysComplete ==
    "update_all_metrics" \in Range(log) =>
        /\ raised = "none"
        /\ metrics # None
        /\ DOMAIN Get(metrics) = MetricFields

(* C4: in a stored record every metric whose own calculation succeeded has *)
(* the value it has when all calculations succeed, and every metric whose  *)
(* calculation failed has its sentinel.                                    *)
C4_MetricsIndependent ==
    metrics # None =>
        LET m == Get(metrics)
            all == metric_dict([c \in Calcs |-> "ok"], m.trial, m.dist)
        IN  /\ m.t_fd = all.t_fd /\ m.r_fd = all.r_fd
            /\ m.mvt_eff = (IF calls["mvt"] = "ok" THEN all.mvt_eff ELSE "-1")
            /\ m.arc_len = (IF calls["mvt"] = "ok" THEN all.arc_len ELSE "-1")
            /\ m.max_err = (IF calls["max_err"] = "ok" THEN all.max_err ELSE "0")
            /\ m.area_btwn = (IF calls["area"] = "ok" THEN all.area_btwn ELSE "-1")
            /\ m.max_a_reg = (IF calls["region"] = "ok" THEN all.max_a_reg ELSE "-1")
            /\ m.max_a_loc = (IF calls["region"] = "ok" THEN all.max_a_loc ELSE "-1")

(* C5: the target path starts at (0,0) and has at least 2 points. *)
C5_TargetOriginTwoPoints ==
    target_line # None =>
        /\ Len(Get(target_line)) >= 2
        /\ Get(target_line)[1] = <<0, 0>>

(* C6: total_distance is the distance from the origin to the last point of *)
(* the target path.                                                        *)
C6_DistanceToLastPoint ==
    target_line # None =>
        Get(total_distance)
            = t_distance(<<0, 0>>, Get(target_line)[Len(Get(target_line))])

(* C7: when the point of the ideal path closest to the last pose is not    *)
(* the origin, the target path is the ideal path up to and including that  *)
(* point, so the last point of the target path is the closest one.         *)
C7_TruncatedInclusive ==
    (target_line # None /\ narrow_target(LastPose, Ideal) # 0) =>
        LET k == narrow_target(LastPose, Ideal)
        IN  /\ Get(target_line) = SubSeq(Ideal, 1, k + 1)
            /\ \A j \in 1..Len(Ideal) :
                   PoseDistKey(LastPose, Get(target_line)[Len(Get(target_line))], NSamples)
                       <= PoseDistKey(LastPose, Ideal[j], NSamples)

CallOrder ==
    <<"_read_file", "_condition_df", "generate_target_line", "generate_target_rot",
      "assess_path_deviation", "update_all_metrics">>

(* C9: the constructor calls conditioning, target synthesis, deviation     *)
(* screening and the metrics in this order, each after the one before has  *)
(* returned, and the labels do not change from the call of                 *)
(* update_all_metrics on.                                                  *)
C9_StepsInOrder ==
    [][/\ IsPrefix(log', CallOrder) \/ log' = <<"_read_file">>
       /\ "generate_target_line" \in Range(log') => poses' # None
       /\ "assess_path_deviation" \in Range(log') =>
              target_line' # None /\ total_distance' # None
       /\ "update_all_metrics" \in Range(log') => labels' = labels]_vars

C9_Witness ==
    /\ pc = "done"
    /\ metrics # None
    /\ HasLabel("deviation")
    /\ log = CallOrder

(* one pass that keeps the rows up to and including the 98th percentile *)
KeepsUpToQuantile(df, col) ==
    IF Len(df) = 0 THEN df
    ELSE LET q_hi == quantile(df, col)
         IN  SelectSeq(df, LAMBDA row : QuantDen * Cell(row, col) <= q_hi)

(* C10: on a table of more than 10 rows each pass of the outlier removal   *)
(* discards exactly the rows whose value exceeds the 98th percentile of    *)
(* the column, and keeps a row whose value equals it.                      *)
C10_DiscardsAbovePercentile ==
    (poses # None /\ Len(Get(csv).rows) > 10) =>
        LET df == Prepared(Get(csv), Get(hand), norm_data)
            px == KeepsUpToQuantile(df, "x")
            py == KeepsUpToQuantile(px, "y")
            pr == KeepsUpToQuantile(py, "rmag")
        IN  Get(poses) = RoundRows(pr)

(* the frames of a table *)
Frames(df) == {df[i].frame : i \in 1..Len(df)}

(* C11: on a table of more than 10 rows the outlier removal is the pass on *)
(* x, then the pass on y, then the pass on rmag, each with the threshold   *)
(* of the table the pass before left; the rows after a pass are among the  *)
(* rows before it, so the row count never grows and a removed row does not *)
(* come back.                                                              *)
C11_PassesInOrder ==
    (poses # None /\ Len(Get(csv).rows) > OutlierMinRows) =>
        LET df == Prepared(Get(csv), Get(hand), norm_data)
            px == FilterPass(df, "x")
            py == FilterPass(px, "y")
            pr == FilterPass(py, "rmag")
        IN  /\ Get(poses) = RoundRows(pr)
            /\ Frames(Get(poses)) \subseteq Frames(py)
            /\ Frames(py) \subseteq Frames(px)
            /\ Frames(px) \subseteq Frames(df)
            /\ Len(Get(poses)) <= Len(py) /\ Len(py) <= Len(px) /\ Len(px) <= Len(df)

(* every pass removes a row and rows are left, and the passes taken in the *)
(* opposite order leave other rows                                         *)
C11_Witness ==
    /\ poses # None
    /\ Len(Get(csv).rows) > OutlierMinRows
    /\ LET df == Prepared(Get(csv), Get(hand), norm_data)
           px == FilterPass(df, "x")
           py == FilterPass(px, "y")
       IN  /\ 0 < Len(Get(poses)) /\ Len(Get(poses)) < Len(py)
           /\ Len(py) < Len(px) /\ Len(px) < Len(df)
           /\ Frames(Get(poses))
                  # Frames(FilterPass(FilterPass(FilterPass(df, "rmag"), "y"), "x"))

(* C12: a table of 10 rows or fewer keeps every row through _condition_df: *)
(* the conditioned table has the frames of the table read, each once.      *)
C12_SmallTablesUntouched ==
    (poses # None /\ Len(Get(csv).rows) <= OutlierMinRows) =>
        /\ Len(Get(poses)) = Len(Get(csv).rows)
        /\ \A i \in 1..Len(Get(poses)) : Get(poses)[i].frame = Get(csv).rows[i].frame

C12_Witness ==
    /\ poses # None
    /\ Len(Get(csv).rows) = OutlierMinRows
    /\ Len(Get(poses)) = OutlierMinRows

(* the row of the table read that has the frame of a pose row *)
RawOf(row) ==
    LET rows == Get(csv).rows
    IN  rows[CHOOSE i \in 1..Len(rows) : rows[i].frame = row.frame]

(* C13: every row of the conditioned table has x = raw_x*1000/span and     *)
(* y = raw_y*1000/depth when normalization is on, x = raw_x*1000 and       *)
(* y = raw_y*1000 when it is off, each to 4 decimals, and rmag as read.    *)
C13_NormalizationFormula ==
    poses # None =>
        \A i \in 1..Len(Get(poses)) :
            LET row == Get(poses)[i]
                raw == RawOf(row)
                span == IF norm_data THEN Get(hand).span ELSE 1
                depth == IF norm_data THEN Get(hand).depth ELSE 1
            IN  /\ row.x = RoundHalfEven(raw.x * MmPerM, span * Fine)
                /\ row.y = RoundHalfEven(raw.y * MmPerM, depth * Fine)
                /\ row.rmag = RoundHalfEven(raw.rmag, Fine)

(* C14: a table that has the fields is conditioned, and to the x, y and    *)
(* rmag values it is conditioned to with its columns in any other order.   *)
C14_FieldNamesNotPositions ==
    (csv # None /\ pc \notin {"parse", "read"} /\ HandKnown(NamePiece(2))) =>
        /\ raised # "TypeError"
        /\ poses # None
        /\ LET other == condition_df(Reordered(Get(csv), Header8), Get(hand), norm_data)
           IN  /\ Len(Get(poses)) = Len(other)
               /\ \A i \in 1..Len(other) :
                      /\ Get(poses)[i].x = other[i].x
                      /\ Get(poses)[i].y = other[i].y
                      /\ Get(poses)[i].rmag = other[i].rmag

(* the pose row i has magnitude at least 0.1 and makes an angle of more    *)
(* than 40 degrees with the last point of the target path                  *)
Offends(i) ==
    LET row == Get(poses)[i]
        last == Get(target_line)[Len(Get(target_line))]
    IN  /\ row.x * row.x + row.y * row.y >= (PoseScale \div 10) * (PoseScale \div 10)
        /\ angle_exceeds(last, <<row.x, row.y>>, Threshold)

(* C15: once the constructor has screened the trajectory, the labels hold  *)
(* "deviation" exactly when some point other than the first, of magnitude  *)
(* at least 0.1, makes an angle of more than 40 degrees with the last      *)
(* point of the target path.                                               *)
C15_DeviationExact ==
    "assess_path_deviation" \in Range(log) =>
        (HasLabel("deviation") <=> \E i \in 2..Len(Get(poses)) : Offends(i))

(* a flagged trajectory of three points whose only offending point is the  *)
(* middle one                                                              *)
C15_Witness ==
    /\ pc = "done"
    /\ HasLabel("deviation")
    /\ Len(Get(poses)) = 3
    /\ Offends(2) /\ ~Offends(3)

(* C16: a trial asked for with a hand name that is not in the hand table   *)
(* ends in the lookup error (KeyError) raised to the caller, with no pose  *)
(* file read or conditioned, no trial built and none skipped.              *)
C16_UnknownHandFailsFast ==
    (~HandKnown(NamePiece(2)) /\ pc # "parse") =>
        /\ pc = "raised"
        /\ raised = "KeyError"
        /\ log = <<>>
        /\ poses = None

(* the raw columns and the frame of every row are those of the rows q *)
SameRaw(p, q) ==
    /\ Len(p) = Len(q)
    /\ \A i \in 1..Len(q) :
           /\ p[i].frame = q[i].frame
           /\ p[i].x = q[i].x /\ p[i].y = q[i].y /\ p[i].rmag = q[i].rmag

Stem == SubSeq(file_name, 1, Len(file_name) - 2)

(* C18 as stated: the name generated from the parsed trial is the file     *)
(* name it was parsed from.                                                *)
C18_RoundTripFileName ==
    subject # None =>
        generate_name(Get(subject), Get(hand), Get(trial_translation),
                      Get(trial_rotation), Get(trial_num)) = file_name

(* C18, amended: the fields parsed from the file name are the five parts   *)
(* it was written from, and the name generated from them is the file name  *)
(* less its extension ".csv".                                              *)
C18_RoundTripStem ==
    subject # None =>
        /\ <<Get(subject), Get(hand).hand_name, Get(trial_translation),
              Get(trial_rotation), Get(trial_num)>>
               = <<NamePiece(1), NamePiece(2), NamePiece(3), NamePiece(4), NamePiece(5)>>
        /\ generate_name(Get(subject), Get(hand), Get(trial_translation),
                         Get(trial_rotation), Get(trial_num)) \o <<".", "csv">> = file_name

C18_Witness ==
    /\ pc = "done"
    /\ trial_rotation = Some(Str("p15"))
    /\ trial_translation = Some(Str("h"))
    /\ generate_name(Get(subject), Get(hand), Get(trial_translation),
                     Get(trial_rotation), Get(trial_num)) = Stem

C20_FallbackTarget ==
    (target_line # None /\ narrow_target(LastPose, Ideal) = 0) =>
        /\ Get(target_line) = <<Ideal[1], Ideal[2]>>
        /\ Ideal[1] = <<0, 0>> /\ Ideal[2] # <<0, 0>>
        /\ Get(total_distance) = t_distance(<<0, 0>>, Ideal[2])

C20_Witness ==
    /\ pc = "done"
    /\ narrow_target(LastPose, Ideal) = 0
    /\ Len(Get(target_line)) = 2
    /\ HasLabel("no_mvt")

(* C21: the target rotation is the rmag of the last row of the trajectory  *)
(* for the rotation modes cw and ccw, 15 for p15 and for m15, and 0 for    *)
(* every other mode.                                                       *)
C21_TargetRotationByMode ==
    target_rotation # None =>
        Get(target_rotation) =
            IF file_name[7] \in {"cw", "ccw"} THEN <<LastPose[3]>>
            ELSE IF file_name[7] \in {"p15", "m15"} THEN <<15 * PoseScale>>
            ELSE <<0>>

(* a counter-clockwise trial whose last row has turned *)
C21_Witness ==
    /\ pc = "done"
    /\ file_name[7] = "ccw"
    /\ LastPose[3] > 0
    /\ target_rotation = Some(<<LastPose[3]>>)

(* C22: trials share no mutable state: what a trial ends with is the same   *)
(* under every interleaving of its construction and saving with the other   *)
(* operations of the program, those that change the working directory       *)
(* included. A trial whose construction has ended has found the hand table, *)
(* and its poses are the conditioned table of its own file.                 *)
C22_TrialsShareNoState ==
    pc \in Terminal =>
        /\ raised # "FileNotFoundError"
        /\ HandKnown(NamePiece(2)) =>
               poses = read_file(csv, HandInfo(NamePiece(2)), norm_data)

(* C23: over any sequence of trial constructions the hand table file is     *)
(* read at most once.                                                        *)
C23_TableReadOnce == table_reads <= 1

(* the squared distance of the i-th point of a returned path from the       *)
(* origin, in steps of 0.5/(num_points - 1): the radius 0.5 is              *)
(* num_points - 1 steps                                                     *)
IdealReturned == call # None /\ Get(call).fn \in GetFns /\ returned # None
Dist2(xy, i) == xy[1][i] * xy[1][i] + xy[2][i] * xy[2][i]

(* C24: for every direction and every n >= 2 the ideal path has n evenly    *)
(* spaced points, starts at the origin, ends at distance exactly 0.5 from   *)
(* the origin, and has no point farther than that.                          *)
C24_IdealPathRadius ==
    (IdealReturned /\ Get(call).num_points >= 2) =>
        LET xy == Get(returned)
            n == Get(call).num_points
        IN  /\ Len(xy[1]) = n /\ Len(xy[2]) = n
            /\ xy[1][1] = 0 /\ xy[2][1] = 0
            /\ \A i \in 2..(n - 1), c \in 1..2 : xy[c][i + 1] - xy[c][i] = xy[c][i] - xy[c][i - 1]
            /\ Dist2(xy, n) = (n - 1) * (n - 1)
            /\ \A i \in 1..n : Dist2(xy, i) <= (n - 1) * (n - 1)

(* C25: the eight ideal paths point in the eight compass directions: at     *)
(* every sample a has x = 0 and y >= 0, b has x = y >= 0, c has y = 0 and   *)
(* x >= 0, d has x >= 0 and y = -x, e has x = 0 and y <= 0, f has           *)
(* x = y <= 0, g has y = 0 and x <= 0, h has x <= 0 and y = -x.             *)
C25_CompassDirections ==
    IdealReturned =>
        LET xy == Get(returned)
            fn == Get(call).fn
        IN  \A i \in 1..Len(xy[1]) :
                LET x == xy[1][i]
                    y == xy[2][i]
                IN  /\ fn = "get_a" => x = 0 /\ y >= 0
                    /\ fn = "get_b" => x = y /\ y >= 0
                    /\ fn = "get_c" => y = 0 /\ x >= 0
                    /\ fn = "get_d" => x >= 0 /\ y = -x
                    /\ fn = "get_e" => x = 0 /\ y <= 0
                    /\ fn = "get_f" => x = y /\ y <= 0
                    /\ fn = "get_g" => y = 0 /\ x <= 0
                    /\ fn = "get_h" => x <= 0 /\ y = -x
C25_Witness ==
    /\ IdealReturned
    /\ Get(call).fn = "get_h"
    /\ Get(call).num_points = MaxPoints
    /\ Get(returned)[1][MaxPoints] < 0
    /\ Get(returned)[2][MaxPoints] > 0

FrechetOfItself ==
    /\ call # None
    /\ Get(call).fn = "calc_frechet_distance"
    /\ Get(call).P = Get(call).Q
    /\ returned # None

C27_AddOptionNeverFails ==
    (call # None /\ Get(call).fn = "add_option" /\ returned # None) =>
        LET c == Get(call)
            r == Get(returned)
            added == SetItem(c.options, c.key, c.new_options)
        IN  /\ r.exc = "none"
            /\ IF c.key \in DOMAIN c.options /\ ~c.overwrite
               THEN r.value = Some(FALSE) /\ r.options = c.options
               ELSE r.value = Some(TRUE) /\ r.options = added

(* the places in the file list of the images, configuration files left out *)
ImagesOf(f) == SelectSeq([i \in 1..Len(f) |-> i], LAMBDA i : f[i] # "ini")

(* C28: an object created with processing frequency k attempts pose         *)
(* estimation on exactly the images at positions 0, k, 2k, ... of the image *)
(* list, a failed image is counted and the later ones still run, and at the *)
(* end analyzed_successfully <= total_counter with one row per success.     *)
C28_EveryKthImage ==
    (call # None /\ Get(call).fn = "analyze_images" /\ returned # None) =>
        LET k == Get(call).processing_freq
            f == Get(call).f
            r == Get(returned)
            images == ImagesOf(f)
            due == {images[p + 1] : p \in {q \in 0..(Len(images) - 1) : q % k = 0}}
        IN  /\ Range(r.attempted) = due
            /\ r.total_counter = Cardinality(due)
            /\ r.analyzed_successfully <= r.total_counter
            /\ r.analyzed_successfully = Cardinality({i \in due : f[i] = "ok"})
            /\ Range(r.rows) = {i \in due : f[i] = "ok"}

(* C29: generate_target_line never fails with an out-of-range index: for a  *)
(* trial with at least one pose, whichever ideal-path point is closest to   *)
(* the last pose, the constructor does not end in IndexError, and once the  *)
(* target is synthesized the trial has a target path and a distance.        *)
C29_TargetLineIndexInRange ==
    (pc \in Terminal /\ poses # None /\ Len(Get(poses)) > 0) =>
        /\ raised # "IndexError"
        /\ raised = "none" => target_line # None /\ total_distance # None

(* C30: conditioning a non-empty table leaves at least one row, whatever    *)
(* its values, so the last-pose lookup of target synthesis never runs on an *)
(* empty trajectory.                                                        *)
C30_ConditioningKeepsARow ==
    (poses # None /\ Len(Get(csv).rows) > 0) => Len(Get(poses)) > 0
====
